---- MODULE Spec2Model ----
(***************************************************************************)
(* PrivateApp backends: the finviz summary cache with its generation flag, *)
(* the finviz ticker table, the arXiv-KB abstract translation cache, and   *)
(* the OpenClaw gateway client.                                            *)
(***************************************************************************)
EXTENDS Integers, Sequences, FiniteSets, TLC

VARIABLES
    now,          \* finviz: wall clock, hours since Monday 00:00 UTC of week 0
    prefsDb,      \* finviz: the preferences table of privateapp.db
    generating,   \* finviz: the keys of the _generating dict
    cacheFiles,   \* finviz: the files of SUMMARY_CACHE_DIR, cache key -> file
    threads,      \* finviz: the _do_generate threads started so far
    handler,      \* finviz: position of the finviz_summary call on the event loop
    req,          \* finviz: the path of the request received by the step just taken, if any
    resp,         \* finviz: the response sent by the step just taken, if it sent one
    llmLog,       \* finviz: history, the <<key, bucket>> pairs the LLM was called for
                  \*   (once) and those it was called for more than once (again)
    tickers,      \* finviz: the rows of the tickers table
    liveSyms,     \* finviz: history, the symbols added and not removed afterwards
    translations, \* arxiv-kb: the rows of the translations table
    settingsLang, \* arxiv-kb: the 'language' rows of the settings database (none when
                  \*   the database is missing)
    llmUsed,      \* arxiv-kb: the step just taken called the LLM
    env,          \* client: OPENCLAW_GATEWAY_URL (no value when unset)
    config        \* client: ~/.openclaw/openclaw.json

summaryVars == <<now, generating, cacheFiles, threads, handler, llmLog>>
tickerVars  == <<tickers, liveSyms>>
arxivVars   == <<translations, settingsLang, llmUsed>>
clientVars  == <<env, config>>
otherVars   == <<tickerVars, arxivVars, clientVars>>
vars == <<summaryVars, prefsDb, req, resp, tickerVars, arxivVars, clientVars>>

(***************************************************************************)
(* Bounds of the model.                                                    *)
(***************************************************************************)
StartHour   == 162      \* Sunday 18:00 of week 0: the week ends two 3-hour slots later
MaxTicks    == 1        \* number of 3-hour clock advances
MaxThreads  == 2        \* _do_generate threads started in one run
MaxLiveThreads == 1     \* the same, in the specification with fairness
MaxBatch    == 2        \* tickers in one POST /tickers body

(***************************************************************************)
(* finviz: inputs and environment                                          *)
(***************************************************************************)
ValidPeriods == {"12h", "24h", "weekly"}
ReqPeriods   == {"12h", "weekly", "1h"}
Topics       == {"Market"}
\* privateapp.db: present or not, and the values of its 'language' row (none or one).
PrefsDbs     == {[present |-> FALSE, language |-> {}],
                 [present |-> TRUE, language |-> {"Chinese"}]}

\* _get_preferences()["language"]: the stored value, "English" when the
\* database is missing or holds no language row.
PrefLanguage(db) ==
    IF db.present /\ db.language # {} THEN CHOOSE v \in db.language : TRUE
    ELSE "English"

\* _period_to_hours
PeriodToHours(period) ==
    CASE period = "12h" -> 12
      [] period = "24h" -> 24
      [] period = "weekly" -> 168
      [] OTHER -> 24

\* The bucket part of _cache_key at clock t: ISO week for weekly, date and
\* hour // 6 for 24h, date and hour // 3 otherwise.
Bucket(period, t) ==
    IF period = "weekly" THEN <<"W", t \div 168>>
    ELSE IF period = "24h" THEN <<t \div 24, (t % 24) \div 6>>
    ELSE <<t \div 24, (t % 24) \div 3>>

\* _cache_key: the md5 digest of "period:language:topic:bucket", taken to be
\* collision free, so the digest is identified with the tuple it hashes.
CacheKey(period, language, topic, t) == <<period, language, topic, Bucket(period, t)>>

\* The key of _generating.
GenKey(period, language, topic) == <<period, language, topic>>

\* _get_cached_summary: the parsed file, or nothing when the file is absent
\* or does not parse (a file opened for writing and not yet written is empty).
GetCachedSummary(files, period, language, topic, t) ==
    LET ck == CacheKey(period, language, topic, t)
    IN  IF ck \in DOMAIN files /\ files[ck].complete THEN {files[ck].data} ELSE {}

\* The content of a file that was opened for writing and holds no text yet.
NoData == [period |-> "", language |-> "", topic |-> "", summary |-> ""]

\* No request was received, no response was sent.
NoReq  == [op |-> "none"]
NoResp == [code |-> 0]

Unlink(files, ck) == [k \in DOMAIN files \ {ck} |-> files[k]]

TypeOK ==
    /\ now \in StartHour .. StartHour + 3 * MaxTicks
    /\ prefsDb \in PrefsDbs
    /\ Len(threads) <= MaxThreads

\* The summary cache right after the service started.
SummaryStart ==
    /\ now = StartHour
    /\ generating = {}
    /\ cacheFiles = <<>>
    /\ threads = <<>>
    /\ handler = [pc |-> "idle"]
    /\ llmLog = [once |-> {}, again |-> {}]

\* The tickers table as _tickers_db creates it (lines 61-65).
TickersStart ==
    /\ tickers = {}
    /\ liveSyms = {}

\* The translations table before any translation, no language configured.
ArxivStart ==
    /\ translations = {}
    /\ settingsLang = {}
    /\ llmUsed = FALSE

\* The environment of the client: variable unset, no configuration file.
ClientStart ==
    /\ env = {}
    /\ config = [kind |-> "missing"]

Init ==
    /\ SummaryStart
    /\ prefsDb \in PrefsDbs
    /\ req = NoReq
    /\ resp = NoResp
    /\ TickersStart
    /\ ArxivStart
    /\ ClientStart

(***************************************************************************)
(* finviz: GET /summary/{period}.  The handler is an async def without an  *)
(* await, so calls to it run one after another on the event loop; the      *)
(* _do_generate threads run concurrently with it.  A call is split where a *)
(* thread can be scheduled between two of its reads of shared state: after *)
(* the cache file was read and before _generating is tested.               *)
(***************************************************************************)
NewThread(period, language, topic) ==
    [period |-> period, language |-> language, topic |-> topic, pc |-> "fetch",
     summary |-> "", ck |-> <<>>, saved |-> FALSE]

\* A thread that has returned from _do_generate.
Finished == [NewThread("", "", "") EXCEPT !.pc = "done"]

\* The period check left out.
PeriodOk_Any(period) == TRUE

\* Lines 344-345: the period check.
PeriodOk(period) == period \in ValidPeriods

\* The _generating test left out.
MayStart_Always(key, gen) == TRUE

\* Lines 361-362: a new thread is started only when the key is not in _generating.
MayStart(key, gen) == key \notin gen

\* Lines 342-359: validation, preferences, the regenerate unlink, the cache read.
SummaryBegin(period, regenerate, topic) ==
    /\ handler.pc = "idle"
    /\ req' = [op |-> "summary", period |-> period, topic |-> topic]
    /\ UNCHANGED otherVars
    /\ UNCHANGED <<now, prefsDb, generating, threads, llmLog>>
    /\ IF ~PeriodOk(period)
       THEN /\ resp' = [code |-> 400]
            /\ UNCHANGED <<handler, cacheFiles>>
       ELSE LET language == PrefLanguage(prefsDb)
                key      == GenKey(period, language, topic)
                files1   == IF regenerate # 0
                            THEN Unlink(cacheFiles, CacheKey(period, language, topic, now))
                            ELSE cacheFiles
                cached   == GetCachedSummary(files1, period, language, topic, now)
            IN  /\ cacheFiles' = files1
                /\ IF cached # {} /\ regenerate = 0
                   THEN /\ resp' = [code |-> 200, status |-> "ready",
                                    summary |-> (CHOOSE d \in cached : TRUE).summary]
                        /\ UNCHANGED handler
                   ELSE /\ resp' = NoResp
                        /\ handler' = [pc |-> "check", period |-> period,
                                       language |-> language, topic |-> topic]

\* Lines 361-367: the _generating test, the flag, the thread start.
SummaryCheckN(maxThreads) ==
    /\ handler.pc = "check"
    /\ UNCHANGED <<now, prefsDb, cacheFiles, llmLog, otherVars>>
    /\ LET key == GenKey(handler.period, handler.language, handler.topic)
       IN  IF MayStart(key, generating)
           THEN /\ Len(threads) < maxThreads
                /\ generating' = generating \cup {key}
                /\ threads' = Append(threads,
                                 NewThread(handler.period, handler.language, handler.topic))
           ELSE UNCHANGED <<generating, threads>>
    /\ req' = NoReq
    /\ resp' = [code |-> 200, status |-> "generating"]
    /\ handler' = [pc |-> "idle"]

SummaryCheck == SummaryCheckN(MaxThreads)

(***************************************************************************)
(* finviz: _do_generate, one thread per call.                              *)
(***************************************************************************)
\* What lines 282-290 meet: _get_articles_for_period raises, finds no row, or
\* finds rows, and then _generate_summary_llm returns a text or raises.
GenerateOutcomes == {"fetch_raises", "no_articles", "llm_ok", "llm_raises"}

\* Lines 282-290: the summary text that _do_generate goes on to save.
SummaryFor(outcome) ==
    CASE outcome = "no_articles" -> "No articles found"
      [] outcome = "llm_ok" -> "Summary"
      [] OTHER -> "Error"

\* Lines 284-287: the LLM is called only when articles were found.
CallsLlm(outcome) == outcome \in {"llm_ok", "llm_raises"}

\* The history of LLM calls after one more call for kb.
Logged(log, kb) ==
    IF kb \in log.once THEN [log EXCEPT !.again = @ \cup {kb}]
    ELSE [log EXCEPT !.once = @ \cup {kb}]

\* Lines 282-290 up to the call of _save_cached_summary: nothing shared is
\* read or written, so the step is atomic.
\* An except clause that saves nothing.
ThenDoes_NoSaveOnError(outcome) ==
    IF outcome \in {"fetch_raises", "llm_raises"} THEN "pop" ELSE "save"

\* Lines 285, 288, 290: on every outcome _save_cached_summary is called next.
ThenDoes(outcome) == "save"

GenerateStep(i, outcome) ==
    /\ threads[i].pc = "fetch"
    /\ threads' = [threads EXCEPT ![i] =
          [@ EXCEPT !.pc = ThenDoes(outcome), !.summary = SummaryFor(outcome)]]
    /\ req' = NoReq
    /\ resp' = NoResp
    /\ UNCHANGED <<now, prefsDb, generating, cacheFiles, handler, otherVars>>

Generate(i, outcome) == GenerateStep(i, outcome) /\ UNCHANGED llmLog

\* The same step with the history of LLM calls kept.
GenerateLogged(i, outcome) ==
    /\ GenerateStep(i, outcome)
    /\ llmLog' = IF CallsLlm(outcome)
                 THEN Logged(llmLog, <<GenKey(threads[i].period, threads[i].language,
                                              threads[i].topic),
                                       Bucket(threads[i].period, now)>>)
                 ELSE llmLog

\* _save_cached_summary, lines 211-222, first half: the cache key is computed
\* from the clock and write_text opens the file, which creates or empties it.
Open(i) ==
    /\ threads[i].pc = "save"
    /\ LET th == threads[i]
           ck == CacheKey(th.period, th.language, th.topic, now)
       IN  /\ cacheFiles' = [k \in DOMAIN cacheFiles \cup {ck} |->
                                IF k = ck THEN [complete |-> FALSE, writer |-> i, data |-> NoData]
                                ELSE cacheFiles[k]]
           /\ threads' = [threads EXCEPT ![i] = [th EXCEPT !.pc = "write", !.ck = ck]]
    /\ req' = NoReq
    /\ resp' = NoResp
    /\ UNCHANGED <<now, prefsDb, generating, handler, llmLog, otherVars>>

\* _save_cached_summary, second half: the JSON text reaches the file the thread
\* opened and the file is closed (writer 0: no thread holds it open); when that
\* file was unlinked meanwhile the text is lost with it.
Write(i) ==
    /\ threads[i].pc = "write"
    /\ LET th == threads[i]
           data == [period |-> th.period, language |-> th.language, topic |-> th.topic,
                    summary |-> th.summary]
       IN  /\ cacheFiles' =
                 IF th.ck \in DOMAIN cacheFiles /\ cacheFiles[th.ck].writer = i
                 THEN [cacheFiles EXCEPT ![th.ck] =
                          [complete |-> TRUE, writer |-> 0, data |-> data]]
                 ELSE cacheFiles
           /\ threads' = [threads EXCEPT ![i] = [th EXCEPT !.pc = "pop", !.saved = TRUE]]
    /\ req' = NoReq
    /\ resp' = NoResp
    /\ UNCHANGED <<now, prefsDb, generating, handler, llmLog, otherVars>>

\* Lines 291-292: the finally clause, the last statement of the thread.
Pop(i) ==
    /\ threads[i].pc = "pop"
    /\ generating' = generating \ {GenKey(threads[i].period, threads[i].language, threads[i].topic)}
    /\ threads' = [threads EXCEPT ![i] = Finished]
    /\ req' = NoReq
    /\ resp' = NoResp
    /\ UNCHANGED <<now, prefsDb, cacheFiles, handler, llmLog, otherVars>>

ThreadStep(i) ==
    \/ \E o \in GenerateOutcomes : Generate(i, o)
    \/ Open(i)
    \/ Write(i)
    \/ Pop(i)

\* The clock moves on by one 3-hour slot.
Tick ==
    /\ now < StartHour + 3 * MaxTicks
    /\ now' = now + 3
    /\ req' = NoReq
    /\ resp' = NoResp
    /\ UNCHANGED <<prefsDb, generating, cacheFiles, threads, handler, llmLog, otherVars>>

NextFinviz ==
    \/ \E p \in ReqPeriods, r \in {0, 1}, t \in Topics : SummaryBegin(p, r, t)
    \/ SummaryCheck
    \/ \E i \in 1 .. Len(threads), o \in GenerateOutcomes : Generate(i, o)
    \/ \E i \in 1 .. Len(threads) : Open(i)
    \/ \E i \in 1 .. Len(threads) : Write(i)
    \/ \E i \in 1 .. Len(threads) : Pop(i)
    \/ Tick

Spec == Init /\ [][NextFinviz]_vars

\* The same service when no client ever passes regenerate.
NextPlain ==
    \/ \E p \in ReqPeriods, t \in Topics : SummaryBegin(p, 0, t)
    \/ SummaryCheck
    \/ \E i \in 1 .. Len(threads), o \in GenerateOutcomes : GenerateLogged(i, o)
    \/ \E i \in 1 .. Len(threads) : Open(i)
    \/ \E i \in 1 .. Len(threads) : Write(i)
    \/ \E i \in 1 .. Len(threads) : Pop(i)
    \/ Tick

SpecPlain == Init /\ [][NextPlain]_vars

\* Every started thread is scheduled until it returns: its steps are a database
\* query, an HTTP call with a timeout and a file write.
Run(i) == i \in 1 .. Len(threads) /\ ThreadStep(i)

NextLive ==
    \/ \E p \in ReqPeriods, r \in {0, 1}, t \in Topics : SummaryBegin(p, r, t)
    \/ SummaryCheckN(MaxLiveThreads)
    \/ \E i \in 1 .. Len(threads), o \in GenerateOutcomes : Generate(i, o)
    \/ \E i \in 1 .. Len(threads) : Open(i)
    \/ \E i \in 1 .. Len(threads) : Write(i)
    \/ \E i \in 1 .. Len(threads) : Pop(i)
    \/ Tick

LiveSpec == Init /\ [][NextLive]_vars /\ \A i \in 1 .. MaxLiveThreads : WF_vars(Run(i))

(***************************************************************************)
(* Text: a Python str is a sequence of one-character strings.              *)
(***************************************************************************)
\* str.upper and str.lower on the letters the inputs use.
UpperChar(c) ==
    CASE c = "n" -> "N" [] c = "v" -> "V" [] c = "t" -> "T" [] c = "m" -> "M"
      [] c = "a" -> "A" [] c = "r" -> "R" [] c = "k" -> "K" [] c = "e" -> "E"
      [] OTHER -> c

LowerChar(c) ==
    CASE c = "N" -> "n" [] c = "V" -> "v" [] c = "T" -> "t" [] c = "M" -> "m"
      [] c = "A" -> "a" [] c = "R" -> "r" [] c = "K" -> "k" [] c = "E" -> "e"
      [] OTHER -> c

Upper(s) == [i \in 1 .. Len(s) |-> UpperChar(s[i])]
Lower(s) == [i \in 1 .. Len(s) |-> LowerChar(s[i])]

RECURSIVE LStrip(_, _)
\* str.lstrip(chars)
LStrip(s, chars) ==
    IF s # <<>> /\ Head(s) \in chars THEN LStrip(Tail(s), chars) ELSE s

RECURSIVE RStrip(_, _)
\* str.rstrip(chars)
RStrip(s, chars) ==
    IF s # <<>> /\ s[Len(s)] \in chars THEN RStrip(SubSeq(s, 1, Len(s) - 1), chars) ELSE s

\* str.strip(): white space goes from both ends.
Strip(s) == RStrip(LStrip(s, {" "}), {" "})

RECURSIVE Split(_, _)
\* str.split(sep) for a one-character separator.
Split(s, sep) ==
    IF \E i \in 1 .. Len(s) : s[i] = sep
    THEN LET i == CHOOSE k \in 1 .. Len(s) : s[k] = sep /\ \A j \in 1 .. k - 1 : s[j] # sep
         IN  <<SubSeq(s, 1, i - 1)>> \o Split(SubSeq(s, i + 1, Len(s)), sep)
    ELSE <<s>>

(***************************************************************************)
(* finviz: POST /tickers and DELETE /tickers.  Both handlers are async     *)
(* defs without an await and no thread touches the table.                  *)
(***************************************************************************)
MARKET == <<"M", "A", "R", "K", "E", "T">>

\* The "symbol" values of the request bodies.
RawSymbols ==
    { <<"n", "v">>, <<" ", "N", "v", " ">>, <<"t">>, <<" ">>,
      <<" ", "M", "a", "r", "k", "e", "t">> }

\* A ticker of a request body: a symbol with or without keywords, or an entry
\* whose symbol is no string (strip raises on it).
TickerItems ==
    {[symbol |-> sym, keywords |-> kw, bad |-> FALSE] :
         sym \in RawSymbols, kw \in {<<>>, << <<"k">> >>}}
    \cup {[symbol |-> <<>>, keywords |-> <<>>, bad |-> TRUE]}

RECURSIVE SeqsUpTo(_, _)
SeqsUpTo(S, n) ==
    IF n = 0 THEN {<<>>}
    ELSE LET shorter == SeqsUpTo(S, n - 1)
         IN  shorter \cup {Append(q, x) : q \in shorter, x \in S}

\* The symbols query strings of DELETE /tickers.
RemoveInputs ==
    { <<"n", "v">>, <<"N", "V", ",", "t">>, <<" ", "n", "v", " ", ",", " ", ",", "T">>,
      <<>>, <<",">>, <<"x">>, <<"m", "a", "r", "k", "e", "t">> }

\* Line 114: sym = t.get("symbol", "").strip().upper()
Normalise(raw) == Upper(Strip(raw))

\* Line 115: empty symbols and MARKET are skipped.
Skipped(sym) == sym = <<>> \/ sym = MARKET

\* An INSERT into a table without the primary key.
InsertOrReplace_Plain(table, row) == table \cup {row}

\* Lines 118-121: INSERT OR REPLACE on the primary key symbol.
InsertOrReplace(table, row) ==
    {r \in table : r.symbol # row.symbol} \cup {row}

\* Line 136: DELETE FROM tickers WHERE symbol = ?
DeleteSymbol(table, sym) == {r \in table : r.symbol # sym}

RECURSIVE AddLoop(_, _, _)
\* Lines 113-122: the loop over the tickers of the body, from the table and
\* the added list so far to those after the last ticker; failed is set when a
\* ticker makes the loop raise.
AddLoop(items, table, added) ==
    IF items = <<>> THEN [table |-> table, added |-> added, failed |-> FALSE]
    ELSE LET t == Head(items)
             sym == Normalise(t.symbol)
         IN  IF t.bad THEN [table |-> table, added |-> added, failed |-> TRUE]
             ELSE IF Skipped(sym) THEN AddLoop(Tail(items), table, added)
             ELSE AddLoop(Tail(items),
                          InsertOrReplace(table,
                             [symbol |-> sym,
                              keywords |-> IF t.keywords = <<>> THEN <<Lower(sym)>>
                                           ELSE t.keywords]),
                          Append(added, sym))

\* Line 132: syms = [s.strip().upper() for s in symbols.split(",") if s.strip()]
RemoveSyms(symbols) ==
    LET parts == Split(symbols, ",")
        kept  == SelectSeq(parts, LAMBDA q : Strip(q) # <<>>)
    IN  [i \in 1 .. Len(kept) |-> Upper(Strip(kept[i]))]

RECURSIVE RemoveLoop(_, _)
\* Lines 135-136
RemoveLoop(syms, table) ==
    IF syms = <<>> THEN table
    ELSE RemoveLoop(Tail(syms), DeleteSymbol(table, Head(syms)))

Range(q) == {q[i] : i \in 1 .. Len(q)}

\* add_tickers, lines 103-126.  An empty list is refused with 400; when the
\* loop raises, the connection is closed without a commit and the inserts made
\* so far are rolled back.
add_tickers(items) ==
    /\ req' = [op |-> "add"]
    /\ UNCHANGED <<summaryVars, prefsDb, arxivVars, clientVars>>
    /\ IF items = <<>>
       THEN /\ resp' = [code |-> 400]
            /\ UNCHANGED tickerVars
       ELSE LET out == AddLoop(items, tickers, <<>>)
            IN  IF out.failed
                THEN /\ resp' = [code |-> 500]
                     /\ UNCHANGED tickerVars
                ELSE /\ resp' = [code |-> 200, ok |-> TRUE, added |-> out.added]
                     /\ tickers' = out.table
                     /\ liveSyms' = liveSyms \cup
                            ({Upper(Strip(items[i].symbol)) : i \in 1 .. Len(items)}
                                \ {<<>>, MARKET})

\* remove_tickers, lines 129-140.
remove_tickers(symbols) ==
    /\ req' = [op |-> "remove"]
    /\ UNCHANGED <<summaryVars, prefsDb, arxivVars, clientVars>>
    /\ LET syms == RemoveSyms(symbols)
       IN  /\ tickers' = RemoveLoop(syms, tickers)
           /\ resp' = [code |-> 200, ok |-> TRUE, removed |-> syms]
    /\ liveSyms' = liveSyms \ {Upper(Strip(q)) : q \in Range(Split(symbols, ","))}

NextTickers ==
    \/ \E items \in SeqsUpTo(TickerItems, MaxBatch) : add_tickers(items)
    \/ \E symbols \in RemoveInputs : remove_tickers(symbols)

SpecTickers == Init /\ [][NextTickers]_vars

\* C6: the tickers table holds exactly one row for each symbol that was added
\* and not removed afterwards, symbols being compared after strip and upper;
\* the empty symbol and MARKET are never stored.
C6_TickersTable ==
    /\ {r.symbol : r \in tickers} = liveSyms
    /\ \A r1, r2 \in tickers : r1.symbol = r2.symbol => r1 = r2
    /\ \A r \in tickers : r.symbol # <<>> /\ r.symbol # MARKET /\ r.symbol = Upper(Strip(r.symbol))

\* One request added a symbol twice, the second time with other keywords, and
\* the table holds one row for it next to the row of another symbol.
C6_Witness ==
    /\ req.op = "add" /\ resp.code = 200
    /\ resp.added = << <<"N", "V">>, <<"N", "V">> >>
    /\ tickers = { [symbol |-> <<"N", "V">>, keywords |-> << <<"k">> >>],
                   [symbol |-> <<"T">>, keywords |-> << <<"t">> >>] }

(***************************************************************************)
(* arxiv-kb: GET /paper/{arxiv_id} and GET /paper/{arxiv_id}/translate.    *)
(* Both handlers are async defs that block on the database and on the LLM  *)
(* request, so calls run one after another.                                *)
(***************************************************************************)
\* The papers table: written by the ingest tool, read only here.
Papers ==
    { [id |-> 1, arxiv_id |-> "2401.00001", abstract |-> <<"a", "b", "s">>],
      [id |-> 2, arxiv_id |-> "2401.00002", abstract |-> <<"a", "b", "s">>],
      [id |-> 3, arxiv_id |-> "2401.00003", abstract |-> <<>>] }

ArxivIds == {p.arxiv_id : p \in Papers} \cup {"9999.99999"}

\* The values of the 'language' row: a name, a name with white space around
\* it, blank, empty.
LanguageValues == { <<"z", "h">>, <<" ", "z", "h", " ">>, <<"f", "r">>, <<" ">>, <<>> }

\* The settings database: missing or without the row (no value), or one value.
SettingsStates == {{}} \cup {{v} : v \in LanguageValues}

\* What _translate gets back: a failed request, or the content of the reply.
LlmReplies == { [ok |-> FALSE, content |-> <<>>],
                [ok |-> TRUE, content |-> <<" ", "T", "1">>],
                [ok |-> TRUE, content |-> <<"T", "2">>],
                [ok |-> TRUE, content |-> <<" ">>] }

\* _get_translate_language, lines 89-103: the stripped value, "" when there is none.
GetTranslateLanguage(settings) ==
    IF settings = {} THEN <<>>
    ELSE LET v == CHOOSE x \in settings : TRUE
         IN  IF v # <<>> THEN Strip(v) ELSE <<>>

\* _translate, lines 106-126: the stripped content, nothing on a failure.
Translate(reply) == IF reply.ok THEN {Strip(reply.content)} ELSE {}

\* Lines 186-189 and 224-226: SELECT ... FROM papers WHERE arxiv_id = ?
PaperRow(arxiv_id) == {p \in Papers : p.arxiv_id = arxiv_id}

\* A lookup that never finds a row.
LookupTranslation_Miss(table, paper_id, lang) == {}

\* A lookup by paper alone: WHERE paper_id = ?
LookupTranslation_AnyLanguage(table, paper_id, lang) ==
    LET rows == {r \in table : r.paper_id = paper_id}
    IN  IF rows = {} THEN {} ELSE {(CHOOSE r \in rows : TRUE).abstract}

\* Lines 199-202 and 235-238: SELECT abstract FROM translations WHERE
\* paper_id = ? AND language = ?, fetchone().
LookupTranslation(table, paper_id, lang) ==
    LET rows == {r \in table : r.paper_id = paper_id /\ r.language = lang}
    IN  IF rows = {} THEN {} ELSE {(CHOOSE r \in rows : TRUE).abstract}

\* science_paper, lines 181-216.  abstract_translated and translate_language
\* are sets of no or one value (None is the empty set).
science_paper(arxiv_id) ==
    /\ req' = [op |-> "paper", arxiv_id |-> arxiv_id]
    /\ UNCHANGED <<summaryVars, prefsDb, tickerVars, clientVars, translations, settingsLang>>
    /\ llmUsed' = FALSE
    /\ IF PaperRow(arxiv_id) = {}
       THEN resp' = [code |-> 404]
       ELSE LET row == CHOOSE p \in PaperRow(arxiv_id) : TRUE
                target_lang == GetTranslateLanguage(settingsLang)
            IN  resp' = [code |-> 200,
                         abstract |-> row.abstract,
                         abstract_translated |->
                            IF target_lang # <<>> /\ row.abstract # <<>>
                            THEN LookupTranslation(translations, row.id, target_lang)
                            ELSE {},
                         translate_language |->
                            IF target_lang # <<>> THEN {target_lang} ELSE {}]

\* science_paper_translate, lines 219-255.  stored is false when the INSERT
\* raises (the except clause passes).
science_paper_translate(arxiv_id, reply, stored) ==
    /\ req' = [op |-> "translate", arxiv_id |-> arxiv_id]
    /\ UNCHANGED <<summaryVars, prefsDb, tickerVars, clientVars, settingsLang>>
    /\ LET rows == PaperRow(arxiv_id)
           target_lang == GetTranslateLanguage(settingsLang)
       IN  IF rows = {} \/ (CHOOSE p \in rows : TRUE).abstract = <<>> \/ target_lang = <<>>
           THEN /\ resp' = [code |-> 200, translated |-> {}, language |-> {}]
                /\ llmUsed' = FALSE
                /\ UNCHANGED translations
           ELSE LET row == CHOOSE p \in rows : TRUE
                    tr  == LookupTranslation(translations, row.id, target_lang)
                IN  IF tr # {}
                    THEN /\ resp' = [code |-> 200, translated |-> tr, language |-> {target_lang}]
                         /\ llmUsed' = FALSE
                         /\ UNCHANGED translations
                    ELSE LET translated == Translate(reply)
                         IN  /\ llmUsed' = TRUE
                             /\ resp' = [code |-> 200, translated |-> translated,
                                         language |-> {target_lang}]
                             /\ translations' =
                                   IF translated # {} /\ translated # {<<>>} /\ stored
                                   THEN translations \cup
                                          {[paper_id |-> row.id, language |-> target_lang,
                                            abstract |-> CHOOSE x \in translated : TRUE]}
                                   ELSE translations

\* The settings application rewrites or removes the language row.
SetLanguage(settings) ==
    /\ settings # settingsLang
    /\ settingsLang' = settings
    /\ req' = NoReq
    /\ resp' = NoResp
    /\ llmUsed' = FALSE
    /\ UNCHANGED <<summaryVars, prefsDb, tickerVars, clientVars, translations>>

NextArxiv ==
    \/ \E a \in ArxivIds : science_paper(a)
    \/ \E a \in ArxivIds, reply \in LlmReplies, stored \in BOOLEAN :
          science_paper_translate(a, reply, stored)
    \/ \E v \in SettingsStates : SetLanguage(v)

SpecArxiv == Init /\ [][NextArxiv]_vars

\* The row of the translations table for a paper and the configured language.
StoredFor(arxiv_id) ==
    {r \in translations :
        /\ \E p \in Papers : p.arxiv_id = arxiv_id /\ p.id = r.paper_id
        /\ r.language = GetTranslateLanguage(settingsLang)}

\* C3: a stored translation stays stored, it is not empty, and a translate
\* request for a paper and language that has one is answered with the stored
\* text without an LLM call.
C3_StoredTranslationServed ==
    [][ /\ translations \subseteq translations'
        /\ \A r \in translations' : r.abstract # <<>>
        /\ (req'.op = "translate" /\ StoredFor(req'.arxiv_id) # {}) =>
              /\ resp'.translated = {r.abstract : r \in StoredFor(req'.arxiv_id)}
              /\ ~llmUsed'
              /\ translations' = translations ]_vars

\* A translate request was answered from the table, without the LLM, after
\* the language had been another one for which a translation is stored too.
C3_Witness ==
    /\ req.op = "translate" /\ ~llmUsed
    /\ resp.translated = {<<"T", "1">>}
    /\ \E r1, r2 \in translations :
          r1.paper_id = r2.paper_id /\ r1.language # r2.language /\ r1.abstract # r2.abstract

\* C4: GET /paper/{arxiv_id} calls no LLM and leaves the translations table
\* alone; abstract_translated is the stored translation for the configured
\* language when there is one and None otherwise.
C4_PaperReadsOnly ==
    [][req'.op = "paper" =>
          /\ ~llmUsed'
          /\ translations' = translations
          /\ resp'.code = 200 =>
                resp'.abstract_translated = {r.abstract : r \in StoredFor(req'.arxiv_id)}]_vars

\* A paper was returned with its stored translation, and the table also holds
\* a translation of it for another language.
C4_Witness ==
    /\ req.op = "paper" /\ resp.code = 200
    /\ resp.abstract_translated = {<<"T", "2">>}
    /\ \E r \in translations : r.language \notin resp.translate_language

(***************************************************************************)
(* The OpenClaw client: get_gateway_url, send_message, send_message_sync.  *)
(* A URL is a sequence of pieces; a '/' at its end is a piece of its own.  *)
(***************************************************************************)
EnvValues ==
    { {}, {<<>>}, {<<"/">>},
      {<<"http://", "gw", ":", "9000">>},
      {<<"http://", "gw", ":", "9000", "/">>},
      {<<"http://", "gw", ":", "9000", "/", "/">>} }

JsonNull == [t |-> "null", v |-> "null"]

\* The values of gateway.host and gateway.port: key absent, a value, null.
HostValues == { {}, {[t |-> "string", v |-> "10.0.0.2"]}, {JsonNull} }
PortValues == { {}, {[t |-> "number", v |-> "9000"]}, {JsonNull} }

\* What "gateway" can be: null, or an object.
GatewayValues ==
    {[t |-> "null"]} \cup
    {[t |-> "object", host |-> h, port |-> p] : h \in HostValues, p \in PortValues}

\* The file: there is no home directory to look in (Path.home() raises), it
\* is missing, it cannot be read or parsed, or it holds a JSON value: an
\* array, or an object with or without "gateway".
ConfigFiles ==
    { [kind |-> "no_home"], [kind |-> "missing"], [kind |-> "unparseable"],
      [kind |-> "json", value |-> [t |-> "array"]],
      [kind |-> "json", value |-> [t |-> "object", gateway |-> {}]] } \cup
    { [kind |-> "json", value |-> [t |-> "object", gateway |-> {g}]] : g \in GatewayValues }

\* Line 49.
DefaultUrl == <<"http://", "localhost", ":", "18789">>

\* A value in an f-string: None for null.
Format(x) == IF x.t = "null" THEN "None" ELSE x.v

\* dict.get(key, default)
Get(value, default) == IF value = {} THEN default ELSE CHOOSE x \in value : TRUE

Returned(url) == [raised |-> FALSE, exc |-> "none", url |-> url]
Raised(exc)   == [raised |-> TRUE, exc |-> exc, url |-> <<>>]

\* The environment value as it is.
EnvUrl_Raw(value) == value

\* Line 35: url.rstrip("/")
EnvUrl(value) == RStrip(value, {"/"})

\* get_gateway_url, lines 30-49.  Path.home() is outside the try statement;
\* every exception of lines 41-44 ends at the default.
get_gateway_url(e, c) ==
    IF e # {} /\ (CHOOSE u \in e : TRUE) # <<>>
    THEN Returned(EnvUrl(CHOOSE u \in e : TRUE))
    ELSE IF c.kind = "no_home" THEN Raised("RuntimeError")
    ELSE IF c.kind = "missing" THEN Returned(DefaultUrl)
    ELSE IF c.kind = "unparseable" THEN Returned(DefaultUrl)
    ELSE IF c.value.t # "object" THEN Returned(DefaultUrl)
    ELSE LET gateway == Get(c.value.gateway, [t |-> "object", host |-> {}, port |-> {}])
         IN  IF gateway.t # "object" THEN Returned(DefaultUrl)
             ELSE LET port == Get(gateway.port, [t |-> "number", v |-> "18789"])
                      host == Get(gateway.host, [t |-> "string", v |-> "127.0.0.1"])
                  IN  Returned(<<"http://", Format(host), ":", Format(port)>>)

\* The arguments of a send: a message json.dumps accepts or not, room and
\* channel None (no value), empty, or a name.
Messages == {[text |-> "alert", serializable |-> TRUE], [text |-> "bytes", serializable |-> FALSE]}
Rooms    == { {}, {""}, {"cronjob"} }
Channels == { {}, {"matrix"} }

\* What urlopen does once the request is made: a response with its status,
\* an HTTPError for an error status, a URLError or a timeout.
GatewayOutcomes ==
    {[kind |-> "response", status |-> st] : st \in {200, 201, 204}} \cup
    {[kind |-> "HTTPError", status |-> st] : st \in {404, 500}} \cup
    {[kind |-> "URLError", status |-> 0], [kind |-> "TimeoutError", status |-> 0]}

\* Lines 69-73: room and channel go into the payload when they are truthy.
Payload(message, room, channel) ==
    [message |-> message.text, room |-> room \ {""}, channel |-> channel \ {""}]

\* urlopen refuses a URL without a scheme with a ValueError.
ValidUrl(url) == url # <<>> /\ url[1] = "http://"

\* An except clause for the errors of urllib alone.
Caught_UrlErrors(exc) == exc \in {"HTTPError", "URLError"}

\* Lines 86 and 116: except Exception.
Caught(exc) == exc \in {"RuntimeError", "TypeError", "ValueError", "HTTPError", "URLError", "TimeoutError"}

\* The try statement: a caught exception becomes False.
Try(body) ==
    IF body.raised /\ Caught(body.exc)
    THEN [raised |-> FALSE, exc |-> "none", value |-> FALSE, sent |-> body.sent]
    ELSE body

Value(v)           == [raised |-> FALSE, exc |-> "none", value |-> v, sent |-> TRUE]
Throws(exc, sent)  == [raised |-> TRUE, exc |-> exc, value |-> FALSE, sent |-> sent]

\* send_message, lines 52-88.  sent tells whether the request reached urlopen
\* with a URL it accepts.
send_message(e, c, message, room, channel, outcome) ==
    Try(LET gateway == get_gateway_url(e, c)
        IN  IF gateway.raised THEN Throws(gateway.exc, FALSE)
            ELSE LET url == gateway.url \o <<"/api/v1/message">>
                     payload == Payload(message, room, channel)
                 IN  IF ~message.serializable THEN Throws("TypeError", FALSE)
                     ELSE IF ~ValidUrl(url) THEN Throws("ValueError", FALSE)
                     ELSE IF outcome.kind = "response" THEN Value(outcome.status = 200)
                     ELSE Throws(outcome.kind, TRUE))

\* send_message_sync, lines 91-118.
send_message_sync(e, c, message, room, channel, outcome) ==
    Try(LET gateway == get_gateway_url(e, c)
        IN  IF gateway.raised THEN Throws(gateway.exc, FALSE)
            ELSE LET url == gateway.url \o <<"/api/v1/message">>
                     payload == Payload(message, room, channel)
                 IN  IF ~message.serializable THEN Throws("TypeError", FALSE)
                     ELSE IF ~ValidUrl(url) THEN Throws("ValueError", FALSE)
                     ELSE IF outcome.kind = "response" THEN Value(outcome.status = 200)
                     ELSE Throws(outcome.kind, TRUE))

notClient == <<summaryVars, prefsDb, tickerVars, arxivVars>>

SetEnv(v) ==
    /\ v # env
    /\ env' = v
    /\ req' = NoReq
    /\ resp' = NoResp
    /\ UNCHANGED <<notClient, config>>

SetConfig(c) ==
    /\ c # config
    /\ config' = c
    /\ req' = NoReq
    /\ resp' = NoResp
    /\ UNCHANGED <<notClient, env>>

CallGetGatewayUrl ==
    /\ req' = [op |-> "get_gateway_url"]
    /\ resp' = get_gateway_url(env, config)
    /\ UNCHANGED <<notClient, clientVars>>

\* One call of each function with the same arguments and the same gateway.
CallSend(message, room, channel, outcome) ==
    /\ req' = [op |-> "send", outcome |-> outcome]
    /\ resp' = [async |-> send_message(env, config, message, room, channel, outcome),
                sync  |-> send_message_sync(env, config, message, room, channel, outcome)]
    /\ UNCHANGED <<notClient, clientVars>>

NextClient ==
    \/ \E v \in EnvValues : SetEnv(v)
    \/ \E c \in ConfigFiles : SetConfig(c)
    \/ CallGetGatewayUrl
    \/ \E m \in Messages, r \in Rooms, ch \in Channels, o \in GatewayOutcomes :
          CallSend(m, r, ch, o)

SpecClient == Init /\ [][NextClient]_vars

\* The environment variable is set to a non-empty value.
EnvSet == env # {} /\ env # {<<>>}

\* The gateway object of a configuration that parses: the empty object when
\* the key is absent.
GatewayOf(c) ==
    IF c.value.t = "object" /\ c.value.gateway # {}
    THEN CHOOSE g \in c.value.gateway : TRUE
    ELSE [t |-> "object", host |-> {}, port |-> {}]

\* http://{gateway.host, 127.0.0.1 without the key}:{gateway.port, 18789 without the key}
ConfigUrl(g) ==
    <<"http://",
      IF g.t = "object" /\ g.host # {} THEN Format(CHOOSE h \in g.host : TRUE) ELSE "127.0.0.1",
      ":",
      IF g.t = "object" /\ g.port # {} THEN Format(CHOOSE q \in g.port : TRUE) ELSE "18789">>

\* C7 as stated: the environment variable without its trailing slashes, else
\* the URL of the configuration file whenever it exists and parses, else the
\* default.
C7_PriorityOrder ==
    req.op = "get_gateway_url" =>
        resp = IF EnvSet THEN Returned(RStrip(CHOOSE u \in env : TRUE, {"/"}))
               ELSE IF config.kind = "json" THEN Returned(ConfigUrl(GatewayOf(config)))
               ELSE Returned(DefaultUrl)

\* The configuration file holds an object whose "gateway" is absent or an object.
WellShaped(c) ==
    /\ c.kind = "json"
    /\ c.value.t = "object"
    /\ \A g \in c.value.gateway : g.t = "object"

\* C7: the environment variable without its trailing slashes; else, with a
\* home directory: the URL of the configuration for a file that parses to an
\* object whose "gateway" is absent or an object, and the default for any
\* other file or none; without a home directory the call raises.
C7_PriorityOrderShaped ==
    req.op = "get_gateway_url" =>
        resp = IF EnvSet THEN Returned(RStrip(CHOOSE u \in env : TRUE, {"/"}))
               ELSE IF config.kind = "no_home" THEN Raised("RuntimeError")
               ELSE IF WellShaped(config) THEN Returned(ConfigUrl(GatewayOf(config)))
               ELSE Returned(DefaultUrl)

\* The URL came from a configuration file that gives a host and no port,
\* with the environment variable set to the empty string.
C7_Witness ==
    /\ req.op = "get_gateway_url"
    /\ env = {<<>>}
    /\ resp = Returned(<<"http://", "10.0.0.2", ":", "18789">>)

\* C8: neither function raises, both return the same, and the result is
\* True exactly when the request was made and answered with status 200.
C8_TrueOnlyOn200 ==
    req.op = "send" =>
        /\ ~resp.async.raised /\ ~resp.sync.raised
        /\ resp.async.value = resp.sync.value
        /\ resp.async.value =
              (resp.async.sent /\ req.outcome.kind = "response" /\ req.outcome.status = 200)

\* A send through the gateway of the configuration file was answered with
\* 200 and returned True.
C8_Witness ==
    /\ req.op = "send" /\ req.outcome = [kind |-> "response", status |-> 200]
    /\ env = {} /\ config.kind = "json"
    /\ resp.async.value /\ resp.sync.value

(***************************************************************************)
(* finviz: properties                                                      *)
(***************************************************************************)
Live(i) == threads[i].pc # "done"
KeyOf(th) == GenKey(th.period, th.language, th.topic)

\* C1: at any time at most one _do_generate thread is running for a key
\* period:language:topic, and the key of every running thread is in _generating.
C1_OneThreadPerKey ==
    /\ \A i, j \in 1 .. Len(threads) :
          (i # j /\ Live(i) /\ Live(j)) => KeyOf(threads[i]) # KeyOf(threads[j])
    /\ \A i \in 1 .. Len(threads) : Live(i) => KeyOf(threads[i]) \in generating

\* A request was just answered "generating" while a thread for its key had
\* already done work, and two threads (of different keys) run at once.
C1_Witness ==
    /\ resp = [code |-> 200, status |-> "generating"]
    /\ \E i, j \in 1 .. Len(threads) :
          i # j /\ Live(i) /\ Live(j) /\ threads[i].pc = "pop" /\ threads[j].pc = "write"

\* C2 (as stated): when no request passes regenerate, the LLM is called at most
\* once for a key in a time bucket.
C2_LlmOncePerBucket == llmLog.again = {}

\* C2, the part about one request: a request without regenerate that finds a
\* readable cache file for the current bucket is answered "ready" with the
\* cached summary and changes neither _generating nor the cache files, starts
\* no thread and calls no LLM.
C2_CachedIsServed ==
    [][\A p \in ValidPeriods, t \in Topics :
          LET cached == GetCachedSummary(cacheFiles, p, PrefLanguage(prefsDb), t, now)
          IN  (SummaryBegin(p, 0, t) /\ cached # {}) =>
                 /\ resp' = [code |-> 200, status |-> "ready",
                             summary |-> (CHOOSE d \in cached : TRUE).summary]
                 /\ UNCHANGED <<generating, cacheFiles, threads, handler, llmLog>>]_vars

\* C5: a request whose period is none of 12h, 24h, weekly is answered 400 and
\* changes nothing, whatever regenerate is.
C5_BadPeriodRejected ==
    [][(req'.op = "summary" /\ req'.period \notin {"12h", "24h", "weekly"}) =>
          /\ resp' = [code |-> 400]
          /\ UNCHANGED <<now, prefsDb, generating, cacheFiles, threads, handler, llmLog>>]_vars

\* A request with a bad period was rejected while a cache file existed and a
\* thread was running.
C5_Witness ==
    /\ req.op = "summary" /\ req.period = "1h" /\ resp.code = 400
    /\ cacheFiles # <<>> /\ generating # {}

====
